---- MODULE Spec2Model ----
(***************************************************************************)
(* The users/posts GraphQL schema of src/index.js (src/unnamed/part_000 is *)
(* the same schema with the fields firstName/title called name): the       *)
(* entity types, the root query, the mutation type, the exported schema,   *)
(* and the document store the resolvers call.                              *)
(*                                                                         *)
(* Values are strings.  Null is a stored null/absent field or a null       *)
(* result, Undefined an argument the request did not supply (args.x of a   *)
(* key that is not in args).                                               *)
(***************************************************************************)
EXTENDS Naturals, FiniteSets, Sequences, TLC

VARIABLES
  users,      \* the users collection: a set of User documents
  posts,      \* the posts collection: a set of Post documents
  nextUser,   \* how many user ids the store has assigned
  nextPost,   \* how many post ids the store has assigned
  build,      \* what the sources leave open: whether the module is evaluated
              \* as strict code, and the store's strictQuery and omitUndefined
  du,         \* the deleteUser resolver in flight (an async function)
  last        \* the last finished operation: request, outcome, returned value

vars == <<users, posts, nextUser, nextPost, build, du, last>>

Null == "null"
Undefined == "undefined"

\* Bounds of the model: how many documents the create mutations may add.
MaxNewUsers == 1
MaxNewPosts == 1

UserId(n) == "u" \o ToString(n)
PostId(n) == "p" \o ToString(n)

\* args.k, for a key that may not be among the arguments
Get(args, k) == IF k \in DOMAIN args THEN args[k] ELSE Undefined

NoDoc == [id |-> Null]

Ids(coll) == {d.id : d \in coll}

(***************************************************************************)
(* The document store (the Mongoose models User and Post).                 *)
(***************************************************************************)
UserPaths == {"id", "firstName", "email", "phone"}
PostPaths == {"id", "creatorId", "title", "description", "status"}

\* a field left undefined is not stored; it reads back as null
Stored(v) == IF v = Undefined THEN Null ELSE v

\* Model.findById(id): the document or null; findById(undefined) finds nothing
FindById(coll, id) ==
  IF \E d \in coll : d.id = id THEN CHOOSE d \in coll : d.id = id ELSE NoDoc

\* Model.find(filter).  With strictQuery the keys that are no path of the
\* schema are dropped from the filter; without it they stay, and match the
\* documents that hold that field with that value.
Find(coll, paths, filter, strictQuery) ==
  LET keys == IF strictQuery THEN DOMAIN filter \cap paths ELSE DOMAIN filter
  IN {d \in coll : \A k \in keys : k \in DOMAIN d /\ d[k] = filter[k]}

\* new Model(doc).save(): the store assigns the id
Save(coll, doc) == coll \cup {doc}

\* Model.findByIdAndRemove(id) and document.deleteOne()
Remove(coll, id) == {d \in coll : d.id # id}

\* Model.findByIdAndUpdate(id, {$set: patch}, {new: true}).  An undefined
\* value of the patch is either omitted from the update or written as null.
Patched(doc, patch, omitUndefined) ==
  [k \in DOMAIN doc |->
     IF k \notin DOMAIN patch THEN doc[k]
     ELSE IF patch[k] = Undefined
          THEN (IF omitUndefined THEN doc[k] ELSE Null)
          ELSE patch[k]]

Update(coll, id, patch, omitUndefined) ==
  {IF d.id = id THEN Patched(d, patch, omitUndefined) ELSE d : d \in coll}

(***************************************************************************)
(* Argument declarations and the engine's coercion of a field's arguments. *)
(***************************************************************************)
NoDefault == Undefined
Arg(nonNull, enum, default) ==
  [nonNull |-> nonNull, enum |-> enum, default |-> default]

\* the values of the enums PostStatus and PostStatusUpdate
PostStatus ==
  [new |-> "Not Started", progress |-> "In Progress", completed |-> "Completed"]
PostStatusUpdate ==
  [new |-> "Not Started", progress |-> "In Progress", completed |-> "Completed"]
EnumValues(name) == IF name = "PostStatus" THEN PostStatus ELSE PostStatusUpdate

\* faulty variant of createUserArgs: email without GraphQLNonNull
createUserArgsEmailOptional ==
  [firstName |-> Arg(TRUE, Null, NoDefault),
   email     |-> Arg(FALSE, Null, NoDefault),
   phone     |-> Arg(TRUE, Null, NoDefault)]

createUserArgs ==
  [firstName |-> Arg(TRUE, Null, NoDefault),
   email     |-> Arg(TRUE, Null, NoDefault),
   phone     |-> Arg(TRUE, Null, NoDefault)]

deleteUserArgs == [id |-> Arg(TRUE, Null, NoDefault)]

\* faulty variant of createPostArgs: status without its defaultValue
createPostArgsNoDefault ==
  [creatorId   |-> Arg(TRUE, Null, NoDefault),
   title       |-> Arg(TRUE, Null, NoDefault),
   description |-> Arg(TRUE, Null, NoDefault),
   status      |-> Arg(FALSE, "PostStatus", NoDefault)]

createPostArgs ==
  [creatorId   |-> Arg(TRUE, Null, NoDefault),
   title       |-> Arg(TRUE, Null, NoDefault),
   description |-> Arg(TRUE, Null, NoDefault),
   status      |-> Arg(FALSE, "PostStatus", "Not Started")]

updatePostArgs ==
  [id          |-> Arg(TRUE, Null, NoDefault),
   title       |-> Arg(FALSE, Null, NoDefault),
   description |-> Arg(FALSE, Null, NoDefault),
   status      |-> Arg(FALSE, "PostStatusUpdate", NoDefault)]

deletePostArgs == [id |-> Arg(TRUE, Null, NoDefault)]

\* a request is valid when it supplies every argument declared GraphQLNonNull
Valid(defs, raw) == \A k \in DOMAIN defs : defs[k].nonNull => raw[k] # Undefined

\* the args object the resolver receives: a supplied enum token becomes its
\* value, an omitted argument its defaultValue (or stays undefined)
Coerce(defs, raw) ==
  [k \in DOMAIN defs |->
     IF raw[k] = Undefined THEN defs[k].default
     ELSE IF defs[k].enum # Null THEN EnumValues(defs[k].enum)[raw[k]]
     ELSE raw[k]]

(***************************************************************************)
(* What an operation leaves in `last`.                                     *)
(***************************************************************************)
Outcome(op, args, status, doc, before, list) ==
  [op |-> op, args |-> args, status |-> status, doc |-> doc,
   before |-> before, list |-> list,
   removed |-> {}, pending |-> {}, failed |-> {}, userRemoval |-> FALSE,
   hadUser |-> FALSE,
   request |-> [operation |-> Null, field |-> Null]]

Rejected(op, raw) == Outcome(op, raw, "validationError", NoDoc, NoDoc, {})

Returned(doc) == IF doc = NoDoc THEN "null" ELSE "ok"

\* the deleteUser resolver: its arguments, the posts of usersPosts not yet
\* iterated, the documents it removed, the removals that failed
Idle == [pc |-> "idle", userId |-> Null, args |-> [id |-> Null],
         remaining |-> {}, removed |-> {}, failed |-> {}, hadUser |-> FALSE]

(***************************************************************************)
(* The store's contents when the server starts.  The collections outlive   *)
(* the server: they hold two users and a post of each, written earlier     *)
(* with the creatorId the Post type reads (post.creatorId).                *)
(***************************************************************************)
SeedUsers ==
  {[id |-> UserId(1), firstName |-> "a", email |-> "e", phone |-> "07"],
   [id |-> UserId(2), firstName |-> "b", email |-> "e", phone |-> "07"]}

SeedPosts ==
  {[id |-> PostId(1), creatorId |-> UserId(1), title |-> "t1",
    description |-> "d1", status |-> "Not Started"],
   [id |-> PostId(2), creatorId |-> UserId(2), title |-> "t1",
    description |-> "d1", status |-> "In Progress"]}

UserIdLimit == Cardinality(SeedUsers) + MaxNewUsers
PostIdLimit == Cardinality(SeedPosts) + MaxNewPosts

(***************************************************************************)
(* Mutation resolvers.                                                     *)
(***************************************************************************)
\* createUser: new User({ firstName, email, phone })
createUserDoc(args, id) ==
  [id |-> id, firstName |-> Stored(args.firstName),
   email |-> Stored(args.email), phone |-> Stored(args.phone)]

CreateUser(raw) ==
  \/ /\ ~Valid(createUserArgs, raw)
     /\ last' = Rejected("createUser", raw)
     /\ UNCHANGED <<users, posts, nextUser, nextPost, build, du>>
  \/ /\ Valid(createUserArgs, raw)
     /\ nextUser < UserIdLimit
     /\ LET doc == createUserDoc(Coerce(createUserArgs, raw), UserId(nextUser + 1))
        IN /\ users' = Save(users, doc)
           /\ last' = Outcome("createUser", raw, "ok", doc, NoDoc, {})
     /\ nextUser' = nextUser + 1
     /\ UNCHANGED <<posts, nextPost, build, du>>

\* createPost: new Post({ creatorId: args.userId, title: args.title, ... })
createPostDoc(args, id) ==
  [id |-> id, creatorId |-> Stored(Get(args, "userId")),
   title |-> Stored(Get(args, "title")),
   description |-> Stored(Get(args, "description")),
   status |-> Stored(Get(args, "status"))]

CreatePost(raw) ==
  \/ /\ ~Valid(createPostArgs, raw)
     /\ last' = Rejected("createPost", raw)
     /\ UNCHANGED <<users, posts, nextUser, nextPost, build, du>>
  \/ /\ Valid(createPostArgs, raw)
     /\ nextPost < PostIdLimit
     /\ LET doc == createPostDoc(Coerce(createPostArgs, raw), PostId(nextPost + 1))
        IN /\ posts' = Save(posts, doc)
           /\ last' = Outcome("createPost", raw, "ok", doc, NoDoc, {})
     /\ nextPost' = nextPost + 1
     /\ UNCHANGED <<users, nextUser, build, du>>

\* updatePost: the $set document handed to Post.findByIdAndUpdate
updatePostPatch(args) ==
  [title |-> Get(args, "title"), description |-> Get(args, "description"),
   status |-> Get(args, "status")]

UpdatePost(raw) ==
  \/ /\ ~Valid(updatePostArgs, raw)
     /\ last' = Rejected("updatePost", raw)
     /\ UNCHANGED <<users, posts, nextUser, nextPost, build, du>>
  \/ /\ Valid(updatePostArgs, raw)
     /\ LET args == Coerce(updatePostArgs, raw)
            before == FindById(posts, args.id)
        IN /\ posts' = Update(posts, args.id, updatePostPatch(args), build.omitUndefined)
           /\ last' = Outcome("updatePost", raw, Returned(before),
                              FindById(posts', args.id), before, {})
     /\ UNCHANGED <<users, nextUser, nextPost, build, du>>

\* deletePost: Post.findByIdAndRemove(args.id)
DeletePost(raw) ==
  \/ /\ ~Valid(deletePostArgs, raw)
     /\ last' = Rejected("deletePost", raw)
     /\ UNCHANGED <<users, posts, nextUser, nextPost, build, du>>
  \/ /\ Valid(deletePostArgs, raw)
     /\ LET args == Coerce(deletePostArgs, raw)
            doc == FindById(posts, args.id)
        IN /\ posts' = Remove(posts, args.id)
           /\ last' = Outcome("deletePost", raw, Returned(doc), doc, doc, {})
     /\ UNCHANGED <<users, nextUser, nextPost, build, du>>

(***************************************************************************)
(* deleteUser, an async function: one action per store call it awaits.     *)
(* Requests of other clients run between its awaits.  Of the store calls   *)
(* only post.deleteOne() is given a failing outcome.                       *)
(***************************************************************************)
\* Post.find({ userId }): the filter built from args.id
deleteUserFilter(args) == [userId |-> args.id]

\* faulty variant of CascadeDone: the removals are started, not awaited
CascadeNotAwaited(d) == TRUE

\* faulty variant of OnRemovalFailure: the failure is swallowed and the
\* loop goes on
OnRemovalFailureContinue(d, p) == [d EXCEPT !.failed = @ \cup {p}]

\* the loop is left, and User.findByIdAndRemove called, once every element
\* of usersPosts has been awaited
CascadeDone(d) == d.remaining = {}

\* a rejected post.deleteOne() is thrown by the await: the function ends
OnRemovalFailure(d, p) == [d EXCEPT !.pc = "idle", !.failed = @ \cup {p}]

Finished(d, status, doc, userRemoval) ==
  [Outcome("deleteUser", d.args, status, doc, NoDoc, {}) EXCEPT
     !.removed = d.removed, !.pending = d.remaining, !.failed = d.failed,
     !.userRemoval = userRemoval, !.hadUser = d.hadUser]

Step(d, name) == Outcome(name, d.args, "pending", NoDoc, NoDoc, {})

\* the call: const usersPosts = await Post.find({ userId })
DeleteUserFind(raw) ==
  \/ /\ ~Valid(deleteUserArgs, raw)
     /\ last' = Rejected("deleteUser", raw)
     /\ UNCHANGED <<users, posts, nextUser, nextPost, build, du>>
  \/ /\ Valid(deleteUserArgs, raw)
     /\ du.pc = "idle"
     /\ LET args == Coerce(deleteUserArgs, raw)
        IN du' = [pc |-> "loop", userId |-> args.id, args |-> raw,
                  remaining |-> Ids(Find(posts, PostPaths, deleteUserFilter(args),
                                         build.strictQuery)),
                  removed |-> {}, failed |-> {},
                  hadUser |-> args.id \in Ids(users)]
     /\ last' = Step(du', "deleteUser.find")
     /\ UNCHANGED <<users, posts, nextUser, nextPost, build>>

\* for (post of usersPosts): `post` is declared nowhere, and the file is an
\* ES module; evaluated as strict code the first assignment to it throws
DeleteUserBindThrows ==
  /\ du.pc = "loop"
  /\ du.remaining # {}
  /\ build.strictMode
  /\ du' = Idle
  /\ last' = Finished(du, "error", NoDoc, FALSE)
  /\ UNCHANGED <<users, posts, nextUser, nextPost, build>>

\* await post.deleteOne(), the store removing the document
DeleteUserDeleteOne(p) ==
  /\ du.pc = "loop"
  /\ p \in du.remaining
  /\ ~build.strictMode
  /\ posts' = Remove(posts, p)
  /\ du' = [du EXCEPT !.remaining = @ \ {p},
                       !.removed = @ \cup {d \in posts : d.id = p}]
  /\ last' = Step(du', "deleteUser.deleteOne")
  /\ UNCHANGED <<users, nextUser, nextPost, build>>

\* await post.deleteOne(), the store failing
DeleteUserDeleteOneFails(p) ==
  /\ du.pc = "loop"
  /\ p \in du.remaining
  /\ ~build.strictMode
  /\ LET d == OnRemovalFailure(du, p)
     IN /\ du' = IF d.pc = "idle" THEN Idle ELSE [d EXCEPT !.remaining = @ \ {p}]
        /\ last' = IF d.pc = "idle" THEN Finished(d, "error", NoDoc, FALSE)
                   ELSE Step(d, "deleteUser.deleteOne")
  /\ UNCHANGED <<users, posts, nextUser, nextPost, build>>

\* return User.findByIdAndRemove(userId)
DeleteUserRemove ==
  /\ du.pc = "loop"
  /\ CascadeDone(du)
  /\ LET doc == FindById(users, du.userId)
     IN last' = Finished(du, Returned(doc), doc, TRUE)
  /\ users' = Remove(users, du.userId)
  /\ du' = Idle
  /\ UNCHANGED <<posts, nextUser, nextPost, build>>

(***************************************************************************)
(* Entity types, the root query and the exported schema.                   *)
(***************************************************************************)
\* faulty variant of creator: a lookup that falls back to any user when
\* none matches
creatorFindOne(post) ==
  IF post.creatorId \in Ids(users) THEN FindById(users, post.creatorId)
  ELSE IF users = {} THEN NoDoc ELSE CHOOSE u \in users : TRUE

\* PostType.creator: User.findById(post.creatorId)
creator(post) == FindById(users, post.creatorId)

\* a Post value completed against PostType: its own fields and `creator`
PostView(post) == [post |-> post, creator |-> creator(post)]

\* RootQuery: `fields` has the one key `user`; the configurations of users,
\* post and posts are written inside the configuration of `user`
RootQuery ==
  [name |-> "RootQueryType",
   fields |->
     [user |->
        [type |-> "User", resolve |-> "User.findById",
         users |-> [type |-> "[User]", resolve |-> "User.find"],
         post  |-> [type |-> "Post", resolve |-> "Post.findById"],
         posts |-> [type |-> "[Post]", resolve |-> "Post.find"]]]]

\* the mutation type and its five fields
mutation ==
  [name |-> "Mutation",
   fields |->
     [createUser |-> createUserArgs, deleteUser |-> deleteUserArgs,
      createPost |-> createPostArgs, updatePost |-> updatePostArgs,
      deletePost |-> deletePostArgs]]

\* new GraphQLSchema({ query: RootQuery })
schema == [query |-> RootQuery]

NoArgs == [id |-> Undefined]

\* what a resolve function of the root query returns
Resolve(name, args) ==
  IF name = "User.findById"
    THEN LET doc == FindById(users, Get(args, "id"))
         IN Outcome("user", args, Returned(doc), doc, NoDoc, {})
  ELSE IF name = "User.find"
    THEN Outcome("users", args, "ok", NoDoc, NoDoc,
                 Find(users, UserPaths, <<>>, build.strictQuery))
  ELSE IF name = "Post.findById"
    THEN LET doc == FindById(posts, Get(args, "id"))
         IN Outcome("post", args, Returned(doc), doc, NoDoc,
                    IF doc = NoDoc THEN {} ELSE {PostView(doc)})
  ELSE Outcome("posts", args, "ok", NoDoc, NoDoc,
               {PostView(p) : p \in Find(posts, PostPaths, <<>>, build.strictQuery)})

\* a request served through the exported schema: the operation's root type
\* is looked up in the schema and the field among that type's fields
Served(operation, field, args) ==
  LET request == [operation |-> operation, field |-> field]
      answer ==
        IF operation \notin DOMAIN schema
          THEN Outcome("serve", args, "notConfigured", NoDoc, NoDoc, {})
        ELSE IF field \notin DOMAIN schema[operation].fields
          THEN Outcome("serve", args, "validationError", NoDoc, NoDoc, {})
        ELSE IF operation = "query"
          THEN Resolve(schema[operation].fields[field].resolve, args)
        ELSE Outcome("serve", args, "resolver", NoDoc, NoDoc, {})
  IN [answer EXCEPT !.op = "serve", !.request = request]

Serve(operation, field, args) ==
  /\ last' = Served(operation, field, args)
  /\ UNCHANGED <<users, posts, nextUser, nextPost, build, du>>

\* the resolve functions of users, post and posts, called on their own
ResolveField(name, args) ==
  /\ last' = Resolve(name, args)
  /\ UNCHANGED <<users, posts, nextUser, nextPost, build, du>>

(***************************************************************************)
(* Behaviours.                                                             *)
(***************************************************************************)
Init ==
  /\ users = SeedUsers
  /\ posts = SeedPosts
  /\ nextUser = Cardinality(SeedUsers)
  /\ nextPost = Cardinality(SeedPosts)
  /\ build \in [strictMode : BOOLEAN, strictQuery : BOOLEAN, omitUndefined : BOOLEAN]
  /\ du = Idle
  /\ last = Outcome("none", [id |-> Null], "none", NoDoc, NoDoc, {})

\* the requests: every argument is supplied, or one of them is left out
Without(raw, k) == [raw EXCEPT ![k] = Undefined]
Omitting(raw) == {raw} \cup {Without(raw, k) : k \in DOMAIN raw}

UserIdInputs == {UserId(1), Undefined}
PostIdInputs == {PostId(1), Undefined}
CreateUserInputs == Omitting([firstName |-> "c", email |-> "e", phone |-> "07"])
CreatePostInputs ==
  Omitting([creatorId |-> UserId(1), title |-> "t1", description |-> "d1",
            status |-> "progress"])
  \cup [creatorId : {UserId(1)}, title : {"t1"}, description : {"d1"},
        status : {"new", "completed"}]
UpdatePostInputs ==
  {[id |-> PostId(1), title |-> "t2", description |-> "d2", status |-> Undefined],
   [id |-> PostId(1), title |-> Undefined, description |-> Undefined,
    status |-> "completed"],
   [id |-> Undefined, title |-> Undefined, description |-> Undefined,
    status |-> "completed"]}

Next ==
  \/ \E raw \in CreateUserInputs : CreateUser(raw)
  \/ \E raw \in CreatePostInputs : CreatePost(raw)
  \/ \E raw \in UpdatePostInputs : UpdatePost(raw)
  \/ \E id \in PostIdInputs : DeletePost([id |-> id])
  \/ \E id \in UserIdInputs : DeleteUserFind([id |-> id])
  \/ DeleteUserBindThrows
  \/ \E p \in du.remaining : DeleteUserDeleteOne(p)
  \/ \E p \in du.remaining : DeleteUserDeleteOneFails(p)
  \/ DeleteUserRemove
  \/ Serve("query", "user", [id |-> UserId(1)])
  \/ \E f \in {"users", "post", "posts"} : Serve("query", f, NoArgs)
  \/ \E f \in DOMAIN mutation.fields : Serve("mutation", f, NoArgs)
  \/ ResolveField("User.find", NoArgs)
  \/ ResolveField("Post.findById", [id |-> PostId(1)])
  \/ ResolveField("Post.find", NoArgs)

Spec == Init /\ [][Next]_vars

(***************************************************************************)
(* Properties.                                                             *)
(***************************************************************************)
MutationNames == {"createUser", "deleteUser", "createPost", "updatePost", "deletePost"}

\* the value a status selector token stands for; no token is Not Started
StatusOf(token) ==
  CASE token = Undefined -> "Not Started"
    [] token = "new" -> "Not Started"
    [] token = "progress" -> "In Progress"
    [] token = "completed" -> "Completed"

\* C1: the post createPost hands to the store has the creatorId, title,
\* description and status that were submitted; no argument is renamed or
\* dropped.
C1_CreatePostKeepsArguments ==
  (last.op = "createPost" /\ last.status = "ok") =>
    /\ last.doc \in posts
    /\ last.doc.creatorId = last.args.creatorId
    /\ last.doc.title = last.args.title
    /\ last.doc.description = last.args.description
    /\ last.doc.status = StatusOf(last.args.status)

\* C2: a deleteUser(id=U) that met no store failure removes the posts whose
\* creatorId is U and no other post, and leaves no user U; it returns the
\* removed user, and null when U did not exist.
C2_DeleteUserCascades ==
  (/\ last.op = "deleteUser"
   /\ last.status # "validationError"
   /\ last.failed = {}) =>
    /\ last.status = (IF last.hadUser THEN "ok" ELSE "null")
    /\ \A p \in posts : p.creatorId # last.args.id
    /\ \A p \in last.removed : p.creatorId = last.args.id
    /\ last.args.id \notin Ids(users)

\* C3: updatePost leaves every field that its arguments omit at the value the
\* post had before the update.
C3_UpdatePostKeepsOmitted ==
  (last.op = "updatePost" /\ last.status = "ok") =>
    \A k \in {"title", "description", "status"} :
      last.args[k] = Undefined => last.doc[k] = last.before[k]

\* C4: each of the five mutations can be executed through the served schema.
C4_MutationsServed ==
  (/\ last.op = "serve"
   /\ last.request.operation = "mutation"
   /\ last.request.field \in MutationNames) =>
    last.status \notin {"notConfigured", "validationError"}

\* C5: the root query answers user, users, post and posts, and users and
\* posts return the documents that are in their collections.
C5_RootQueryLists ==
  (last.op = "serve" /\ last.request.operation = "query") =>
    /\ last.request.field \in {"user", "users", "post", "posts"} =>
         last.status \in {"ok", "null"}
    /\ last.request.field = "users" => last.list = users
    /\ last.request.field = "posts" => {v.post : v \in last.list} = posts

C7_DanglingCreatorIsNull ==
  (last.op \in {"post", "posts"}) =>
    /\ last.status \in {"ok", "null"}
    /\ \A v \in last.list :
         /\ v.post \in posts
         /\ v.post.creatorId \notin Ids(users) => v.creator = NoDoc
    /\ last.op = "posts" => {v.post : v \in last.list} = posts

C7_Witness ==
  /\ last.op = "posts"
  /\ UserId(1) \notin Ids(users)
  /\ \E v \in last.list : v.post.creatorId = UserId(1) /\ v.creator = NoDoc
  /\ \E v \in last.list : v.creator # NoDoc

\* C8: a post created without a status is stored as Not Started, and one
\* created with the token new, progress or completed as Not Started,
\* In Progress or Completed.
C8_StatusDefault ==
  (last.op = "createPost" /\ last.status = "ok") =>
    /\ last.doc \in posts
    /\ last.doc.status = StatusOf(last.args.status)

C8_Witness ==
  /\ last.op = "createPost"
  /\ last.args.status = Undefined
  /\ last.doc \in posts
  /\ last.doc.status = "Not Started"

\* the arguments the specification calls required
Required(op) ==
  CASE op = "createUser" -> {"firstName", "email", "phone"}
    [] op = "createPost" -> {"creatorId", "title", "description"}
    [] op \in {"deleteUser", "deletePost", "updatePost"} -> {"id"}

\* C9: a mutation request that omits a required argument is rejected with a
\* validation error, and a rejected request changes neither collection nor
\* starts a cascade.
C9_RequiredArguments ==
  /\ [](last.op \in MutationNames =>
          ((\E k \in Required(last.op) : last.args[k] = Undefined)
             => last.status = "validationError"))
  /\ [][last'.status = "validationError" =>
          UNCHANGED <<users, posts, nextUser, nextPost, du>>]_vars

C9_Witness ==
  /\ last.op = "createUser"
  /\ last.args.email = Undefined
  /\ last.status = "validationError"
  /\ users = SeedUsers

====
